---- MODULE Spec2Model ----
(***************************************************************************)
(* Model of tamr_toolbox.notifications.emails (send_email,                 *)
(* _send_job_status_message, monitor_job), of the polling loop it          *)
(* delegates to (tamr_toolbox.notifications.common.monitor_job) and of     *)
(* tamr_toolbox.utils.client.get_with_connection_retry as exercised by     *)
(* tests/utils/test_client.py.                                             *)
(*                                                                         *)
(* Time is counted in whole seconds.  A fetch of the operation and a send  *)
(* take no time; only the sleeps advance the clock.                        *)
(***************************************************************************)
EXTENDS Integers, Sequences, FiniteSets, TLC

VARIABLES
    pc,        \* position of the caller's one thread of control
    call,      \* the call in progress: its name and keyword arguments
    observed,  \* raw operation states fetched so far in this session
    log,       \* list_responses of the monitoring session
    sends,     \* every send_email invocation made, in order, with its SMTP trace
    elapsed,   \* seconds since the loop started
    slept,     \* durations of the sleeps taken, with the time each began at
    warnings,  \* number of 'Caught exception in connect' warnings logged
    result     \* what the call returned or raised

vars == <<pc, call, observed, log, sends, elapsed, slept, warnings, result>>

----------------------------------------------------------------------------
(* Bounds of the model *)

MaxPolls == 3          \* polls of a session that has no timeout
MaxTimeout == 2        \* largest timeout_seconds of monitor_job
MaxInterval == 3       \* largest poll_interval_seconds (> MaxTimeout)
MaxRetryTimeout == 3   \* largest timeout_seconds of get_with_connection_retry
MaxRetrySleep == 2     \* largest sleep_seconds of get_with_connection_retry

----------------------------------------------------------------------------
(* Python values *)

PyNone == [py |-> "None"]
PyList(S) == [py |-> "list", elems |-> S]
PyTuple(message, response) == [py |-> "tuple", message |-> message, response |-> response]
PyDict(d) == [py |-> "dict", val |-> d]
PyNum(n) == [py |-> "number", v |-> n]
NoExc == "None"

Min(a, b) == IF a <= b THEN a ELSE b

----------------------------------------------------------------------------
(* The operation service *)

OperationState == {"PENDING", "RUNNING", "SUCCEEDED", "FAILED", "CANCELED"}
TerminalStates == {"SUCCEEDED", "FAILED", "CANCELED"}
UnknownRaw == "BOGUS"
RawStates == OperationState \cup {UnknownRaw}

Operation(raw) == [resource_id |-> "1", state |-> raw]
get_details(operation) == <<"details", operation.resource_id, operation.state>>

----------------------------------------------------------------------------
(* The SMTP server and network, as send_email meets them *)

Recipients == {"r1", "r2"}

\* What goes wrong during one send: nothing, a refused recipient (data, not an
\* exception), or an exception raised by one step of the session.
Faults == {"none", "refused",
           "connect_smtp", "connect_os",
           "starttls_smtp", "starttls_os",
           "login_smtp", "sendmail_smtp"}

\* The exception class each fault raises.
ExcOf(fault) ==
    CASE fault = "connect_smtp"  -> "SMTPConnectError"
      [] fault = "connect_os"    -> "ConnectionRefusedError"
      [] fault = "starttls_smtp" -> "SMTPNotSupportedError"
      [] fault = "starttls_os"   -> "SSLError"
      [] fault = "login_smtp"    -> "SMTPAuthenticationError"
      [] fault = "sendmail_smtp" -> "SMTPDataError"
      [] OTHER                   -> NoExc

\* The classes `except SMTPException` catches.
SMTPException ==
    {"SMTPConnectError", "SMTPNotSupportedError", "SMTPAuthenticationError", "SMTPDataError"}

Step(op, ok) == [op |-> op, ok |-> ok]

\* server.sendmail's return value: one entry per refused recipient.
sendmail(fault) ==
    PyDict([r \in (IF fault = "refused" THEN {"r1"} ELSE {}) |-> <<550, "refused">>])

\* The body of the try block: the steps taken on the connection, the exception
\* that left the block (NoExc when none) and the value bound to response.
MutSmtpLoginFirst(use_tls, fault) ==
    LET ctor == IF use_tls THEN "SMTP" ELSE "SMTP_SSL"
    IN  IF fault \in {"connect_smtp", "connect_os"}
        THEN [trace |-> <<Step(ctor, FALSE)>>, exc |-> ExcOf(fault), response |-> PyNone]
        ELSE IF fault = "login_smtp"
        THEN [trace |-> <<Step(ctor, TRUE), Step("login", FALSE), Step("close", TRUE)>>,
              exc |-> ExcOf(fault), response |-> PyNone]
        ELSE IF use_tls /\ fault \in {"starttls_smtp", "starttls_os"}
        THEN [trace |-> <<Step(ctor, TRUE), Step("login", TRUE),
                          Step("starttls", FALSE), Step("close", TRUE)>>,
              exc |-> ExcOf(fault), response |-> PyNone]
        ELSE LET pre == <<Step(ctor, TRUE), Step("login", TRUE)>>
                         \o (IF use_tls THEN <<Step("starttls", TRUE)>> ELSE <<>>)
             IN  IF fault = "sendmail_smtp"
                 THEN [trace |-> pre \o <<Step("sendmail", FALSE), Step("close", TRUE)>>,
                       exc |-> ExcOf(fault), response |-> PyNone]
                 ELSE [trace |-> pre \o <<Step("sendmail", TRUE), Step("close", TRUE)>>,
                       exc |-> NoExc, response |-> sendmail(fault)]

smtp_session(use_tls, fault) ==
    LET ctor == IF use_tls THEN "SMTP" ELSE "SMTP_SSL"
    IN  IF fault \in {"connect_smtp", "connect_os"}
        THEN \* the constructor raised: the with block is never entered
             [trace |-> <<Step(ctor, FALSE)>>, exc |-> ExcOf(fault), response |-> PyNone]
        ELSE IF use_tls /\ fault \in {"starttls_smtp", "starttls_os"}
        THEN [trace |-> <<Step(ctor, TRUE), Step("starttls", FALSE), Step("close", TRUE)>>,
              exc |-> ExcOf(fault), response |-> PyNone]
        ELSE LET pre == <<Step(ctor, TRUE)>>
                         \o (IF use_tls THEN <<Step("starttls", TRUE)>> ELSE <<>>)
             IN  IF fault = "login_smtp"
                 THEN [trace |-> pre \o <<Step("login", FALSE), Step("close", TRUE)>>,
                       exc |-> ExcOf(fault), response |-> PyNone]
                 ELSE IF fault = "sendmail_smtp"
                 THEN [trace |-> pre \o <<Step("login", TRUE), Step("sendmail", FALSE),
                                          Step("close", TRUE)>>,
                       exc |-> ExcOf(fault), response |-> PyNone]
                 ELSE [trace |-> pre \o <<Step("login", TRUE), Step("sendmail", TRUE),
                                          Step("close", TRUE)>>,
                       exc |-> NoExc, response |-> sendmail(fault)]

\* The except clause and the return.
handle_exception(message, raise_error, s) ==
    IF s.exc = NoExc
    THEN [outcome |-> "return", exc |-> NoExc, value |-> PyTuple(message, s.response)]
    ELSE IF s.exc \in SMTPException
    THEN IF ~raise_error
         THEN [outcome |-> "return", exc |-> NoExc,
               value |-> PyTuple(message,
                           PyDict([type  |-> "SMTPException",
                                   text  |-> <<"The email: ", message, " failed to send.">>,
                                   error |-> s.exc]))]
         ELSE [outcome |-> "raise", exc |-> s.exc, value |-> PyNone]
    ELSE \* not an SMTPException: the except clause does not apply
         [outcome |-> "raise", exc |-> s.exc, value |-> PyNone]

send_email(message, use_tls, raise_error, fault) ==
    LET s == smtp_session(use_tls, fault)
        r == handle_exception(message, raise_error, s)
    IN  [message |-> message, use_tls |-> use_tls, raise_error |-> raise_error,
         fault |-> fault, trace |-> s.trace,
         outcome |-> r.outcome, exc |-> r.exc, value |-> r.value]

----------------------------------------------------------------------------
(* The dispatcher *)

\* Python's `state in notify_states`; None is not iterable.
MutStatusNoKeyError(operation, notify_states, use_tls, fault) ==
    IF notify_states.py = "None"
    THEN [outcome |-> "raise", exc |-> "TypeError", value |-> PyNone, sent |-> <<>>]
    ELSE IF operation.state \in notify_states.elems
    THEN LET r == send_email(get_details(operation), use_tls, TRUE, fault)
         IN  [outcome |-> r.outcome, exc |-> r.exc, value |-> r.value, sent |-> <<r>>]
    ELSE [outcome |-> "return", exc |-> NoExc, value |-> PyNone, sent |-> <<>>]

MutStatusInverted(operation, notify_states, use_tls, fault) ==
    IF operation.state \notin OperationState
    THEN [outcome |-> "raise", exc |-> "KeyError", value |-> PyNone, sent |-> <<>>]
    ELSE IF notify_states.py = "None"
    THEN [outcome |-> "raise", exc |-> "TypeError", value |-> PyNone, sent |-> <<>>]
    ELSE IF operation.state \notin notify_states.elems
    THEN LET r == send_email(get_details(operation), use_tls, TRUE, fault)
         IN  [outcome |-> r.outcome, exc |-> r.exc, value |-> r.value, sent |-> <<r>>]
    ELSE [outcome |-> "return", exc |-> NoExc, value |-> PyNone, sent |-> <<>>]

MutStatusDropsResp(operation, notify_states, use_tls, fault) ==
    IF operation.state \notin OperationState
    THEN [outcome |-> "raise", exc |-> "KeyError", value |-> PyNone, sent |-> <<>>]
    ELSE IF notify_states.py = "None"
    THEN [outcome |-> "raise", exc |-> "TypeError", value |-> PyNone, sent |-> <<>>]
    ELSE IF operation.state \in notify_states.elems
    THEN LET r == send_email(get_details(operation), use_tls, TRUE, fault)
         IN  [outcome |-> r.outcome, exc |-> r.exc, value |-> PyNone, sent |-> <<r>>]
    ELSE [outcome |-> "return", exc |-> NoExc, value |-> PyNone, sent |-> <<>>]

_send_job_status_message(operation, notify_states, use_tls, fault) ==
    IF operation.state \notin OperationState
    THEN \* OperationState[operation.state] raises KeyError
         [outcome |-> "raise", exc |-> "KeyError", value |-> PyNone, sent |-> <<>>]
    ELSE IF notify_states.py = "None"
    THEN [outcome |-> "raise", exc |-> "TypeError", value |-> PyNone, sent |-> <<>>]
    ELSE IF operation.state \in notify_states.elems
    THEN \* raise_error is not passed: send_email's default, True, applies
         LET r == send_email(get_details(operation), use_tls, TRUE, fault)
         IN  [outcome |-> r.outcome, exc |-> r.exc, value |-> r.value, sent |-> <<r>>]
    ELSE [outcome |-> "return", exc |-> NoExc, value |-> PyNone, sent |-> <<>>]

----------------------------------------------------------------------------
(* State machine *)

NotifyArgs == {PyNone} \cup {PyList(S) : S \in SUBSET OperationState}

NoCall == [name |-> "none"]
NoResult == [outcome |-> "none", exc |-> NoExc, value |-> PyNone]

Init ==
    /\ pc = "idle"
    /\ call = NoCall
    /\ observed = <<>>
    /\ log = <<>>
    /\ sends = <<>>
    /\ elapsed = 0
    /\ slept = <<>>
    /\ warnings = 0
    /\ result = NoResult

\* A direct call of send_email.
CallSendEmail ==
    /\ pc = "idle"
    /\ \E use_tls \in BOOLEAN, raise_error \in BOOLEAN, fault \in Faults :
         LET r == send_email(<<"hello">>, use_tls, raise_error, fault)
         IN  /\ call' = [name |-> "send_email", use_tls |-> use_tls,
                         raise_error |-> raise_error]
             /\ sends' = <<[at |-> 0, run |-> r]>>
             /\ result' = [outcome |-> r.outcome, exc |-> r.exc, value |-> r.value]
             /\ pc' = IF r.outcome = "raise" THEN "raised" ELSE "done"
    /\ UNCHANGED <<observed, log, elapsed, slept, warnings>>

\* A direct call of _send_job_status_message.
CallSendStatus ==
    /\ pc = "idle"
    /\ \E raw \in RawStates, ns \in NotifyArgs, use_tls \in BOOLEAN, fault \in Faults :
         LET d == _send_job_status_message(Operation(raw), ns, use_tls, fault)
         IN  /\ call' = [name |-> "_send_job_status_message", use_tls |-> use_tls,
                         notify_states |-> ns, operation |-> Operation(raw)]
             /\ sends' = [i \in 1..Len(d.sent) |-> [at |-> 0, run |-> d.sent[i]]]
             /\ result' = [outcome |-> d.outcome, exc |-> d.exc, value |-> d.value]
             /\ pc' = IF d.outcome = "raise" THEN "raised" ELSE "done"
    /\ UNCHANGED <<observed, log, elapsed, slept, warnings>>

----------------------------------------------------------------------------
(* monitor_job and the polling loop behind it *)

AllStates == PyList(OperationState)

\* emails.monitor_job: the keyword arguments handed to the common polling loop.
MutMonitorDropsTimeout(poll_interval_seconds, timeout_seconds, notify_states, use_tls) ==
    [send_status_function |-> "_send_job_status_message",
     poll_interval_seconds |-> poll_interval_seconds,
     timeout_seconds |-> PyNone,
     notify_states |-> notify_states,
     use_tls |-> use_tls]

monitor_job(poll_interval_seconds, timeout_seconds, notify_states, use_tls) ==
    [send_status_function |-> "_send_job_status_message",
     poll_interval_seconds |-> poll_interval_seconds,
     timeout_seconds |-> timeout_seconds,
     notify_states |-> notify_states,
     use_tls |-> use_tls]

\* notify_states unset means every state.
resolve_notify_states(notify_states) ==
    IF notify_states.py = "None" THEN AllStates ELSE notify_states

\* A fetched state is a new observation when it is the first fetch or differs
\* from the state fetched before it.
is_transition(obs, raw) == obs = <<>> \/ obs[Len(obs)] # raw

timed_out(timeout_seconds, now) ==
    timeout_seconds.py # "None" /\ now >= timeout_seconds.v

sleep_duration(poll_interval_seconds, timeout_seconds, now) ==
    IF timeout_seconds.py = "None"
    THEN poll_interval_seconds
    ELSE Min(poll_interval_seconds, timeout_seconds.v - now)

\* One turn of the loop: fetch, notify, decide whether to go on.
poll_once(k, obs, entries, now, raw, fault) ==
    LET notify == resolve_notify_states(k.notify_states)
    IN  IF raw \notin OperationState
        THEN [pc |-> "raised", log |-> entries, sent |-> <<>>,
              result |-> [outcome |-> "raise", exc |-> "KeyError", value |-> PyNone]]
        ELSE
        LET d == IF is_transition(obs, raw) /\ raw \in notify.elems
                 THEN _send_job_status_message(Operation(raw), notify, k.use_tls, fault)
                 ELSE [outcome |-> "skip", exc |-> NoExc, value |-> PyNone, sent |-> <<>>]
            entries2 == IF d.outcome = "return" THEN Append(entries, d.value) ELSE entries
        IN  IF d.outcome = "raise"
            THEN [pc |-> "raised", log |-> entries, sent |-> d.sent,
                  result |-> [outcome |-> "raise", exc |-> d.exc, value |-> PyNone]]
            ELSE IF raw \in TerminalStates
            THEN [pc |-> "done", log |-> entries2, sent |-> d.sent,
                  result |-> [outcome |-> "return", exc |-> NoExc,
                              value |-> PyList(entries2)]]
            ELSE IF timed_out(k.timeout_seconds, now)
            THEN [pc |-> "raised", log |-> entries2, sent |-> d.sent,
                  result |-> [outcome |-> "raise", exc |-> "TimeoutError",
                              value |-> PyNone]]
            ELSE [pc |-> "sleep", log |-> entries2, sent |-> d.sent,
                  result |-> NoResult]

Timeouts == {PyNone} \cup {PyNum(t) : t \in 1..MaxTimeout}

CallMonitorJob ==
    /\ pc = "idle"
    /\ \E p \in 1..MaxInterval, t \in Timeouts, ns \in NotifyArgs, use_tls \in BOOLEAN :
         call' = [name |-> "monitor_job",
                  args |-> [poll_interval_seconds |-> p, timeout_seconds |-> t,
                            notify_states |-> ns, use_tls |-> use_tls],
                  kwargs |-> monitor_job(p, t, ns, use_tls)]
    /\ pc' = "poll"
    /\ UNCHANGED <<observed, log, sends, elapsed, slept, warnings, result>>

Poll ==
    /\ pc = "poll"
    /\ \E raw \in RawStates, fault \in Faults :
         LET n == Len(observed) + 1
             r == poll_once(call.kwargs, observed, log, elapsed, raw, fault)
         IN  /\ observed' = Append(observed, raw)
             /\ log' = r.log
             /\ sends' = sends \o [i \in 1..Len(r.sent) |-> [at |-> n, run |-> r.sent[i]]]
             /\ result' = r.result
             /\ pc' = r.pc
    /\ UNCHANGED <<call, elapsed, slept, warnings>>

Sleep ==
    /\ pc = "sleep"
    /\ call.kwargs.timeout_seconds.py # "None" \/ Len(observed) < MaxPolls
    /\ LET d == sleep_duration(call.kwargs.poll_interval_seconds,
                                call.kwargs.timeout_seconds, elapsed)
       IN  /\ elapsed' = elapsed + d
           /\ slept' = Append(slept, [dur |-> d, at |-> elapsed])
    /\ pc' = "poll"
    /\ UNCHANGED <<call, observed, log, sends, warnings, result>>

----------------------------------------------------------------------------
(* get_with_connection_retry *)

\* One turn of the retry loop: give up when the budget is spent, else try the
\* endpoint; a refused connection is logged and followed by a sleep.
MutRetryNoWarning(k, now, warned, connected) ==
    IF now >= k.timeout_seconds
    THEN [pc |-> "raised", elapsed |-> now, warnings |-> warned,
          result |-> [outcome |-> "raise", exc |-> "TimeoutError", value |-> PyNone]]
    ELSE IF connected
    THEN [pc |-> "done", elapsed |-> now, warnings |-> warned,
          result |-> [outcome |-> "return", exc |-> NoExc, value |-> PyNone]]
    ELSE [pc |-> "retry", elapsed |-> now + k.sleep_seconds, warnings |-> warned,
          result |-> NoResult]

retry_once(k, now, warned, connected) ==
    IF now >= k.timeout_seconds
    THEN [pc |-> "raised", elapsed |-> now, warnings |-> warned,
          result |-> [outcome |-> "raise", exc |-> "TimeoutError", value |-> PyNone]]
    ELSE IF connected
    THEN [pc |-> "done", elapsed |-> now, warnings |-> warned,
          result |-> [outcome |-> "return", exc |-> NoExc, value |-> PyNone]]
    ELSE [pc |-> "retry", elapsed |-> now + k.sleep_seconds, warnings |-> warned + 1,
          result |-> NoResult]

CallGetWithConnectionRetry ==
    /\ pc = "idle"
    /\ \E t \in 1..MaxRetryTimeout, s \in 1..MaxRetrySleep :
         call' = [name |-> "get_with_connection_retry",
                  timeout_seconds |-> t, sleep_seconds |-> s]
    /\ pc' = "retry"
    /\ UNCHANGED <<observed, log, sends, elapsed, slept, warnings, result>>

RetryAttempt ==
    /\ pc = "retry"
    /\ \E connected \in BOOLEAN :
         LET r == retry_once(call, elapsed, warnings, connected)
         IN  /\ pc' = r.pc
             /\ elapsed' = r.elapsed
             /\ warnings' = r.warnings
             /\ result' = r.result
    /\ UNCHANGED <<call, observed, log, sends, slept>>

Next ==
    \/ CallSendEmail
    \/ CallSendStatus
    \/ CallMonitorJob
    \/ Poll
    \/ Sleep
    \/ CallGetWithConnectionRetry
    \/ RetryAttempt

Spec == Init /\ [][Next]_vars

----------------------------------------------------------------------------
(* Vocabulary of the properties *)

Last(seq) == seq[Len(seq)]

Finished == pc \in {"done", "raised"}

InSendEmail == call.name = "send_email" /\ Finished
InSendStatus == call.name = "_send_job_status_message" /\ Finished
InMonitor == call.name = "monitor_job"
InRetry == call.name = "get_with_connection_retry"

\* A step of the SMTP session raised.
SendFailed(run) == \E i \in DOMAIN run.trace : ~run.trace[i].ok

\* The send_email invocations made for the n-th observation of the session.
SendsAt(n) == {i \in DOMAIN sends : sends[i].at = n}

\* The state a log entry reports, "None" for a placeholder entry.
EntryState(e) == IF e.py = "tuple" THEN e.message[3] ELSE "None"

\* A sequence of observations with repeated polls of an unchanged state removed.
RECURSIVE Collapse(_)
Collapse(obs) ==
    IF Len(obs) <= 1 THEN obs
    ELSE LET front == Collapse(SubSeq(obs, 1, Len(obs) - 1))
         IN  IF obs[Len(obs)] = obs[Len(obs) - 1] THEN front ELSE Append(front, Last(obs))

\* The caller's notify_states with None read as every state.
Requested == resolve_notify_states(call.args.notify_states).elems

----------------------------------------------------------------------------
(* C1: every transport-level failure of send_email (cannot connect,        *)
(* authentication rejected, protocol error in starttls/login/sendmail)     *)
(* propagates when raise_error is true, and when raise_error is false is   *)
(* returned as (message, descriptor) with exactly the fields               *)
(* type/text/error.  The code catches SMTPException only: a failure that   *)
(* is raised as another class (a refused socket connection, a TLS          *)
(* handshake error) propagates whatever raise_error is.                    *)

C1_SuppressedOrRaised ==
    (InSendEmail /\ SendFailed(sends[1].run)) =>
        IF call.raise_error
        THEN result.outcome = "raise" /\ result.exc = sends[1].run.exc
        ELSE /\ result.outcome = "return"
             /\ result.value.py = "tuple"
             /\ result.value.message = sends[1].run.message
             /\ result.value.response.py = "dict"
             /\ DOMAIN result.value.response.val = {"type", "text", "error"}

----------------------------------------------------------------------------
(* C2: in a monitor_job session a failed send is never retried, is         *)
(* recorded as one entry of the returned log, and does not abort the       *)
(* session.  The code sends with raise_error left at its default, True, so *)
(* the failure is raised through the dispatcher and ends the session.      *)

C2_FailedSendRecorded ==
    InMonitor =>
        \A i \in DOMAIN sends :
            SendFailed(sends[i].run) =>
                /\ Cardinality(SendsAt(sends[i].at)) = 1
                /\ pc # "raised"
                /\ \E j \in DOMAIN log :
                       /\ log[j].py = "tuple"
                       /\ log[j].message = sends[i].run.message
                       /\ log[j].response.py = "dict"
                       /\ DOMAIN log[j].response.val = {"type", "text", "error"}

----------------------------------------------------------------------------
(* C3: for a recognised operation state and a notify_states list,          *)
(* _send_job_status_message returns None without invoking send_email when  *)
(* the state is not in the list, and otherwise invokes send_email exactly  *)
(* once and hands back what it returned (or raised) unchanged.             *)

C3_DispatchIffMember ==
    (/\ InSendStatus
     /\ call.notify_states.py = "list"
     /\ call.operation.state \in OperationState) =>
        IF call.operation.state \notin call.notify_states.elems
        THEN result.outcome = "return" /\ result.value = PyNone /\ sends = <<>>
        ELSE /\ Len(sends) = 1
             /\ sends[1].run.message = get_details(call.operation)
             /\ result.outcome = sends[1].run.outcome
             /\ result.exc = sends[1].run.exc
             /\ result.value = sends[1].run.value
             /\ result.outcome = "return" => result.value.py = "tuple"

C3_Witness ==
    /\ InSendStatus
    /\ call.notify_states.py = "list"
    /\ call.operation.state \in call.notify_states.elems
    /\ call.notify_states.elems # OperationState
    /\ Len(sends) = 1
    /\ result.outcome = "return"
    /\ result.value.py = "tuple"

----------------------------------------------------------------------------
(* C4: when the session observes a terminal state that is in notify_states *)
(* (also when the first fetch is already terminal), exactly one            *)
(* notification is dispatched for that observation, the session stops      *)
(* there, and on return the notification is the last entry of the log.     *)

C4_TerminalNotifiedOnce ==
    (/\ InMonitor
     /\ observed # <<>>
     /\ Last(observed) \in TerminalStates
     /\ Last(observed) \in Requested) =>
        /\ Cardinality(SendsAt(Len(observed))) = 1
        /\ Finished
        /\ pc = "done" =>
               /\ log # <<>>
               /\ Last(log) = sends[Len(sends)].run.value
               /\ EntryState(Last(log)) = Last(observed)
               /\ result.value = PyList(log)

C4_Witness ==
    /\ InMonitor
    /\ pc = "done"
    /\ Len(observed) = 1
    /\ call.args.notify_states.py = "list"
    /\ Last(observed) \in call.args.notify_states.elems
    /\ Len(log) = 1
    /\ Len(sends) = 1

----------------------------------------------------------------------------
(* C5: for every notify_states list S and terminal state T not in S, a     *)
(* session that ends in T returns an empty log and dispatches nothing.     *)
(* This fails when S holds a state observed before T.                      *)

----------------------------------------------------------------------------
(* C6: with notify_states unset, the log holds exactly one entry for each  *)
(* state the session observed (the first fetch and every later change of   *)
(* state), in the order observed, each entry being what the one send for   *)
(* it returned; a poll that finds the state unchanged adds no entry.       *)

----------------------------------------------------------------------------
(* C7: with timeout_seconds T and poll_interval_seconds P, a session whose *)
(* operation does not reach a terminal state raises Timeout no later than  *)
(* T seconds after the loop started: every sleep lasts min(P, time left),  *)
(* the loop never sleeps once the budget is spent, and it polls at most    *)
(* T + 1 times.                                                            *)

----------------------------------------------------------------------------
(* C8: an operation state that is not a recognised OperationState makes    *)
(* _send_job_status_message, and a monitor_job session that fetches it,    *)
(* fail with an error for every notify_states value; None is never         *)
(* returned for it and no email is sent for that observation.              *)

C8_UnknownStateRaises ==
    /\ (InSendStatus /\ call.operation.state \notin OperationState) =>
           /\ result.outcome = "raise"
           /\ result.exc = "KeyError"
           /\ sends = <<>>
    /\ (InMonitor /\ observed # <<>> /\ Last(observed) \notin OperationState) =>
           /\ pc = "raised"
           /\ result.outcome = "raise"
           /\ result.exc = "KeyError"
           /\ SendsAt(Len(observed)) = {}

C8_Witness ==
    /\ InSendStatus
    /\ call.operation.state = UnknownRaw
    /\ call.notify_states = PyList({"SUCCEEDED"})
    /\ result.outcome = "raise"

----------------------------------------------------------------------------
(* C9: get_with_connection_retry against an endpoint that refuses every    *)
(* connection stops retrying: it raises TimeoutError once timeout_seconds  *)
(* is spent, having logged at least one 'Caught exception in connect'      *)
(* warning, and never makes more attempts than the budget allows.          *)

----------------------------------------------------------------------------
(* C10: each send_email call works on a connection of its own and takes    *)
(* the SMTP steps in one order: connect (plaintext when use_tls, else      *)
(* already encrypted), starttls only when use_tls, login, one sendmail.    *)
(* sendmail never runs unless login succeeded, login never runs on a       *)
(* plaintext connection that was not upgraded, and a connection that was   *)
(* opened is closed on every exit path.                                    *)

SessionOrdered(run) ==
    LET t == run.trace
        ctor == IF run.use_tls THEN "SMTP" ELSE "SMTP_SSL"
        Before(i, st) == \E j \in 1..(i - 1) : t[j] = st
    IN  /\ Len(t) >= 1
        /\ t[1].op = ctor
        /\ \A i \in 2..Len(t) : t[i].op \notin {"SMTP", "SMTP_SSL"}
        /\ ~run.use_tls => \A i \in DOMAIN t : t[i].op # "starttls"
        /\ \A i \in DOMAIN t :
               /\ t[i].op = "starttls" => i = 2 /\ t[1] = Step("SMTP", TRUE)
               /\ t[i].op = "login" =>
                      /\ Before(i, Step(ctor, TRUE))
                      /\ run.use_tls => Before(i, Step("starttls", TRUE))
               /\ t[i].op = "sendmail" => Before(i, Step("login", TRUE))
               /\ t[i].op = "close" => i = Len(t)
        /\ Cardinality({i \in DOMAIN t : t[i].op = "sendmail"}) <= 1
        /\ Cardinality({i \in DOMAIN t : t[i].op = "login"}) <= 1
        /\ t[1].ok => Last(t) = Step("close", TRUE)
        /\ run.outcome = "return" /\ run.value.response.py = "dict"
               /\ DOMAIN run.value.response.val \subseteq Recipients
               => \E i \in DOMAIN t : t[i] = Step("sendmail", TRUE)

C10_SmtpStepOrder ==
    \A i \in DOMAIN sends : SessionOrdered(sends[i].run)

C10_Witness ==
    \E i \in DOMAIN sends :
        /\ sends[i].run.use_tls
        /\ sends[i].run.fault = "sendmail_smtp"
        /\ ~sends[i].run.raise_error
        /\ sends[i].run.outcome = "return"
        /\ Len(sends[i].run.trace) = 5

====
